---- MODULE Spec2Model ----
(***************************************************************************)
(* k6ctl: the script archiver (archiveTest), the ConfigMap publisher       *)
(* (createConfigMap / deleteConfigMap) and the name sanitizer              *)
(* (sanitizeText) of src/src/script/script.service.ts.                     *)
(*                                                                         *)
(* Strings are sequences of one-character strings.  Every async function   *)
(* is cut at its awaits: one action per synchronous segment.               *)
(***************************************************************************)
EXTENDS Integers, Sequences, FiniteSets, TLC

VARIABLES
  san,      \* the sanitizer under test: input, first and second result
  fsys,     \* the filesystem: existing path -> [size, byte], size bytes of value byte
  now,      \* Date.now()
  cluster,  \* the cluster's ConfigMaps: <<namespace, name>> -> binaryData
  calls,    \* the calls made so far, each with its position and outcome
  console,  \* what has been written to the process console
  envOps,   \* how often something outside the process changed a file
  cachedEnv,  \* utils/env: the module's cache of the loaded variables
  envFiles,   \* the .env files: path -> the file's lines, or no file
  envTrace,   \* utils/env: the reads made, the resets made and the last call's outcome
  k6cfg       \* loadK6Config: the config file it is called on and what it gave

envVars == <<cachedEnv, envFiles, envTrace, k6cfg>>

vars ==
  <<san, fsys, now, cluster, calls, console, envOps, cachedEnv, envFiles, envTrace, k6cfg>>

-----------------------------------------------------------------------------
(* Bounds *)

\* longest input string given to the sanitizer
MaxLen == 4

\* how many calls of archiveTest, createConfigMap and deleteConfigMap are made
MaxCalls == 2

\* the latest value of the millisecond clock
MaxNow == 2

\* how many times a file is changed from outside the process
MaxEnvOps == 1

-----------------------------------------------------------------------------
(* Characters and strings *)

LowerSeq == <<"a", "b", "c", "d", "e", "f", "g", "h", "i", "j", "k", "l", "m",
              "n", "o", "p", "q", "r", "s", "t", "u", "v", "w", "x", "y", "z">>
UpperSeq == <<"A", "B", "C", "D", "E", "F", "G", "H", "I", "J", "K", "L", "M",
              "N", "O", "P", "Q", "R", "S", "T", "U", "V", "W", "X", "Y", "Z">>
Lower == {LowerSeq[i] : i \in 1..26}
Upper == {UpperSeq[i] : i \in 1..26}
Digit == {"0", "1", "2", "3", "4", "5", "6", "7", "8", "9"}

\* String.prototype.toLowerCase, one character
LowerChar(c) ==
  IF c \in Upper THEN LowerSeq[CHOOSE i \in 1..26 : UpperSeq[i] = c] ELSE c

\* the class [a-z0-9]
IsAlnum(c) == c \in Lower \cup Digit

\* the class [a-z0-9.-]
IsNameChar(c) == IsAlnum(c) \/ c = "." \/ c = "-"

\* text.toLowerCase()
ToLowerCase(s) == [i \in 1..Len(s) |-> LowerChar(s[i])]

\* replace(/_/g, '-')
ReplaceUnderscore(s) == [i \in 1..Len(s) |-> IF s[i] = "_" THEN "-" ELSE s[i]]

\* replace(/[^a-z0-9.-]/g, '-')
ReplaceInvalid(s) == [i \in 1..Len(s) |-> IF IsNameChar(s[i]) THEN s[i] ELSE "-"]

\* replace(/^X+|X+$/g, '') for a character class X, given the positions of s
\* that hold no character of X: the leading run and the trailing run of X go; a
\* string that is all X becomes empty
TrimToKept(s, keep) ==
  IF keep = {} THEN <<>>
  ELSE LET lo == CHOOSE i \in keep : \A j \in keep : i <= j
           hi == CHOOSE i \in keep : \A j \in keep : j <= i
       IN  SubSeq(s, lo, hi)

IsHyphenOrDot(c) == c = "-" \/ c = "."

\* replace(/^[^a-z0-9]+|[^a-z0-9]+$/g, '')
TrimNonAlnum(s) == TrimToKept(s, {i \in 1..Len(s) : IsAlnum(s[i])})

\* replace(/^[.-]+|[.-]+$/g, '')
TrimHyphenDot(s) == TrimToKept(s, {i \in 1..Len(s) : ~IsHyphenOrDot(s[i])})

\* replace(/[c]+/g, 'c'): every run of c becomes one c
RECURSIVE CollapseRuns(_, _)
CollapseRuns(s, c) ==
  IF Len(s) <= 1 THEN s
  ELSE IF s[1] = c /\ s[2] = c THEN CollapseRuns(Tail(s), c)
  ELSE <<s[1]>> \o CollapseRuns(Tail(s), c)

\* a plausible slip: the runs are collapsed before the other characters are
\* turned into hyphens, so the hyphens made later are left in runs
sanitizeTextCollapseFirst(text) ==
  LET a == ToLowerCase(text)
      b == CollapseRuns(CollapseRuns(a, "-"), ".")
      c == ReplaceInvalid(ReplaceUnderscore(b))
      d == TrimNonAlnum(c)
  IN  TrimHyphenDot(d)

\* a plausible slip: the ends are never trimmed
sanitizeTextNoTrim(text) ==
  LET a == ToLowerCase(text)
      b == ReplaceUnderscore(a)
      c == ReplaceInvalid(b)
      e == CollapseRuns(c, "-")
  IN  CollapseRuns(e, ".")

sanitizeText(text) ==
  LET a == ToLowerCase(text)
      b == ReplaceUnderscore(a)
      c == ReplaceInvalid(b)
      d == TrimNonAlnum(c)
      e == CollapseRuns(d, "-")
      f == CollapseRuns(e, ".")
  IN  TrimHyphenDot(f)

-----------------------------------------------------------------------------
(* node:path (posix) and number formatting, as the code uses them *)

\* a value that is no string: an argument not given, a result not yet there
Undefined == <<"undefined">>

\* the sanitizer has not been applied yet
NotYet == <<"?">>

DigitChar(d) == <<"0", "1", "2", "3", "4", "5", "6", "7", "8", "9">>[d + 1]

\* `${n}` for a non-negative integer n
RECURSIVE NumberToString(_)
NumberToString(n) == IF n < 10 THEN <<DigitChar(n)>> ELSE NumberToString(n \div 10) \o <<DigitChar(n % 10)>>

\* the path without its trailing slashes
RECURSIVE StripTrailingSlashes(_)
StripTrailingSlashes(p) ==
  IF Len(p) > 0 /\ p[Len(p)] = "/" THEN StripTrailingSlashes(SubSeq(p, 1, Len(p) - 1)) ELSE p

\* the greatest position of character c in s, 0 if there is none
LastIndexOf(s, c) ==
  LET at == {i \in 1..Len(s) : s[i] = c}
  IN  IF at = {} THEN 0 ELSE CHOOSE i \in at : \A j \in at : j <= i

\* path.basename(p): the last segment, trailing slashes ignored
basename(p) ==
  LET q == StripTrailingSlashes(p)
  IN  SubSeq(q, LastIndexOf(q, "/") + 1, Len(q))

\* path.parse(p).name: the base name without its extension.  The extension starts
\* at the last dot of the base name, unless that dot is its first character or the
\* base name is ".."
ParseName(p) ==
  LET base == basename(p)
      dot == LastIndexOf(base, ".")
  IN  IF dot <= 1 \/ base = <<".", ".">> THEN base ELSE SubSeq(base, 1, dot - 1)

\* the segments of a path between its slashes
RECURSIVE Segments(_)
Segments(p) ==
  LET cut == {i \in 1..Len(p) : p[i] = "/"}
  IN  IF cut = {} THEN <<p>>
      ELSE LET i == CHOOSE k \in cut : \A j \in cut : k <= j
           IN  <<SubSeq(p, 1, i - 1)>> \o Segments(SubSeq(p, i + 1, Len(p)))

\* path.normalize on the segments of a relative or absolute path: "" and "." go,
\* ".." takes the segment before it (if there is one that is not "..")
RECURSIVE NormalizeSegments(_, _, _)
NormalizeSegments(segs, done, absolute) ==
  IF segs = <<>> THEN done
  ELSE LET s == Head(segs)
           rest == Tail(segs)
       IN  IF s = <<>> \/ s = <<".">> THEN NormalizeSegments(rest, done, absolute)
           ELSE IF s = <<".", ".">>
             THEN IF done # <<>> /\ done[Len(done)] # <<".", ".">>
                    THEN NormalizeSegments(rest, SubSeq(done, 1, Len(done) - 1), absolute)
                  ELSE IF absolute THEN NormalizeSegments(rest, done, absolute)
                  ELSE NormalizeSegments(rest, Append(done, s), absolute)
           ELSE NormalizeSegments(rest, Append(done, s), absolute)

RECURSIVE JoinSegments(_)
JoinSegments(segs) ==
  IF segs = <<>> THEN <<>>
  ELSE IF Len(segs) = 1 THEN segs[1]
  ELSE segs[1] \o <<"/">> \o JoinSegments(Tail(segs))

\* path.join(dir, file): the non-empty arguments joined by "/" and normalized
join(dir, file) ==
  LET joined == IF dir = <<>> THEN file
                ELSE IF file = <<>> THEN dir
                ELSE dir \o <<"/">> \o file
      absolute == Len(joined) > 0 /\ joined[1] = "/"
      trailing == Len(joined) > 0 /\ joined[Len(joined)] = "/"
      body == JoinSegments(NormalizeSegments(Segments(joined), <<>>, absolute))
  IN  IF body = <<>> THEN (IF absolute THEN <<"/">> ELSE <<".">>)
      ELSE (IF absolute THEN <<"/">> ELSE <<>>) \o body
           \o (IF trailing THEN <<"/">> ELSE <<>>)

-----------------------------------------------------------------------------
(* Values: errors, files, the inputs of the calls *)

\* new Error(`text${args[1]}...`): the template's fixed text, the values put into
\* it, and the message of the error it wraps (none: <<>>, one: <<message>>)
Msg(text, args, cause) == [text |-> text, args |-> args, cause |-> cause]

NoError == Msg("", <<>>, <<>>)

\* the call has ended by throwing
Failed(call) == call.pc = "done" /\ call.error.text # ""

\* the call has ended by returning
Returned(call) == call.pc = "done" /\ call.error.text = ""

\* the stats of a file not yet looked at
NoStats == [size |-> -1]

\* what readFile gave, before it has been called
NoContent == [size |-> -1, byte |-> 0]

\* the byte the packaging tool fills its archives with, and the byte anything
\* else writes
ToolByte == 77
EnvByte == 120

\* Buffer's base64: three bytes make four characters of the alphabet, a last
\* group of one or two bytes is padded with "="
Base64Alphabet ==
  UpperSeq \o LowerSeq \o <<"0", "1", "2", "3", "4", "5", "6", "7", "8", "9", "+", "/">>

Base64Group(b1, b2, b3) ==
  <<Base64Alphabet[(b1 \div 4) + 1],
    Base64Alphabet[(b1 % 4) * 16 + (b2 \div 16) + 1],
    Base64Alphabet[(b2 % 16) * 4 + (b3 \div 64) + 1],
    Base64Alphabet[(b3 % 64) + 1]>>

Base64Tail(b1, b2, n) ==
  IF n = 0 THEN <<>>
  ELSE IF n = 1
    THEN <<Base64Alphabet[(b1 \div 4) + 1], Base64Alphabet[(b1 % 4) * 16 + 1], "=", "=">>
  ELSE <<Base64Alphabet[(b1 \div 4) + 1],
         Base64Alphabet[(b1 % 4) * 16 + (b2 \div 16) + 1],
         Base64Alphabet[(b2 % 16) * 4 + 1], "=">>

\* the base64 text of a content of size equal bytes: the same group of four
\* characters size \div 3 times, then the padded tail
Base64Of(content) ==
  [group |-> IF content.size \div 3 = 0 THEN <<>>
             ELSE Base64Group(content.byte, content.byte, content.byte),
   groups |-> content.size \div 3,
   tail |-> Base64Tail(content.byte, content.byte, content.size % 3)]

\* 'hex' for 'base64': two digits a byte
HexDigits == <<"0", "1", "2", "3", "4", "5", "6", "7", "8", "9", "a", "b", "c", "d", "e", "f">>

HexOf(content) ==
  [group |-> IF content.size = 0 THEN <<>>
             ELSE <<HexDigits[(content.byte \div 16) + 1], HexDigits[(content.byte % 16) + 1]>>,
   groups |-> content.size,
   tail |-> <<>>]

\* the size ceiling of createConfigMap
MaxConfigMapSize == 1024 * 1024

Sizes == {1, MaxConfigMapSize, MaxConfigMapSize + 1}

\* the sizes of the archives the packaging tool writes
ToolSizes == {1, MaxConfigMapSize + 1}

\* if (x), for a string or undefined: undefined and "" are falsy
Truthy(x) == x # Undefined /\ x # <<>>

\* fs.existsSync(path)
existsSync(path) == path \in DOMAIN fsys

ScriptAB == <<"a", "_", "B", ".", "j", "s">>
ScriptUnderscore == <<"_", ".", "j", "s">>
ScriptMissing == <<"k", ".", "j", "s">>
ScriptPaths == {ScriptAB, ScriptUnderscore, ScriptMissing}

DirOut == <<"o">>
DirMissing == <<"n">>
OutputDirectories == {Undefined, <<>>, DirOut, DirMissing}

\* archives that are on disk, or named, without a call of archiveTest having made
\* them: createConfigMap takes any ArchiveResult
HandMadePath == <<"o", "/", "a", "-", "b", ".", "t">>
GonePath == <<"g", ".", "t">>

ArchiveResultOf(archiveOutput, scriptPath) ==
  [archivePath |-> archiveOutput,
   archiveFilename |-> basename(archiveOutput),
   scriptPath |-> scriptPath,
   scriptFilename |-> basename(scriptPath)]

HandMadeResults == {ArchiveResultOf(HandMadePath, ScriptAB), ArchiveResultOf(GonePath, ScriptAB)}

Namespaces == {"default", "load"}

\* what the packaging tool wrote on its error stream
Stderrs == {"level=error"}

\* how a request to the cluster ends before the cluster decides on it
Transports == {"ok", "Forbidden"}

\* the error the cluster client throws
ApiError(reason) == Msg(reason, <<>>, <<>>)

Calls(op) == {i \in 1..Len(calls) : calls[i].op = op}

-----------------------------------------------------------------------------
(* archiveTest, cut at its awaits *)

ArchivePrefix == <<"a", "r", "c", "h", "i", "v", "e", "-">>
TarExtension == <<".", "t", "a", "r">>

\* what the archive command did, before it has run
NoTool == [exit |-> -1, stderr |-> "", found |-> FALSE]

\* a call of archiveTest as it starts; scriptExisted, directoryExisted, probe,
\* tool and wrote record what the call met and did
NewArchiveCall(scriptPath, outputDirectory) ==
  [op |-> "archive", pc |-> "probe",
   scriptPath |-> scriptPath, outputDirectory |-> outputDirectory,
   scriptExisted |-> existsSync(scriptPath),
   directoryExisted |-> existsSync(outputDirectory),
   archiveOutput |-> Undefined,
   probes |-> 0, commands |-> 0, probe |-> "none", tool |-> NoTool, wrote |-> {},
   result |-> Undefined, error |-> NoError]

\* a plausible slip: the script is not looked for before the probe
archiveTestEntryNoScriptCheck(scriptPath, outputDirectory) ==
  LET call == NewArchiveCall(scriptPath, outputDirectory)
  IN  IF Truthy(outputDirectory) /\ ~existsSync(outputDirectory)
        THEN [call EXCEPT !.pc = "done",
                          !.error = Msg("Output directory does not exist at path: ",
                                        <<outputDirectory>>, <<>>)]
      ELSE [call EXCEPT !.probes = 1]

\* a plausible slip: the output directory is not looked for before the probe
archiveTestEntryNoDirectoryCheck(scriptPath, outputDirectory) ==
  LET call == NewArchiveCall(scriptPath, outputDirectory)
  IN  IF ~existsSync(scriptPath)
        THEN [call EXCEPT !.pc = "done",
                          !.error = Msg("Script file not found at path: ", <<scriptPath>>, <<>>)]
      ELSE [call EXCEPT !.probes = 1]

\* a plausible slip: the output directory is looked for before the script
archiveTestEntryDirectoryFirst(scriptPath, outputDirectory) ==
  LET call == NewArchiveCall(scriptPath, outputDirectory)
  IN  IF Truthy(outputDirectory) /\ ~existsSync(outputDirectory)
        THEN [call EXCEPT !.pc = "done",
                          !.error = Msg("Output directory does not exist at path: ",
                                        <<outputDirectory>>, <<>>)]
      ELSE IF ~existsSync(scriptPath)
        THEN [call EXCEPT !.pc = "done",
                          !.error = Msg("Script file not found at path: ", <<scriptPath>>, <<>>)]
      ELSE [call EXCEPT !.probes = 1]

\* archiveTest from the call to the first await: the two existence checks, then
\* the version probe is started
archiveTestEntry(scriptPath, outputDirectory) ==
  LET call == NewArchiveCall(scriptPath, outputDirectory)
  IN  IF ~existsSync(scriptPath)
        THEN [call EXCEPT !.pc = "done",
                          !.error = Msg("Script file not found at path: ", <<scriptPath>>, <<>>)]
      ELSE IF Truthy(outputDirectory) /\ ~existsSync(outputDirectory)
        THEN [call EXCEPT !.pc = "done",
                          !.error = Msg("Output directory does not exist at path: ",
                                        <<outputDirectory>>, <<>>)]
      ELSE [call EXCEPT !.probes = 1]

\* a plausible slip: the probe's failure is caught and let go
archiveTestAfterProbeIgnoreFailure(call, installed) ==
  LET scriptName == ParseName(call.scriptPath)
      sanitizedScriptName == sanitizeText(scriptName)
      archiveOutput ==
        join(IF call.outputDirectory = Undefined THEN <<".">> ELSE call.outputDirectory,
             ArchivePrefix \o sanitizedScriptName \o <<"-">> \o NumberToString(now)
               \o TarExtension)
  IN  [call EXCEPT !.pc = "cmd", !.archiveOutput = archiveOutput, !.commands = 1]

\* a plausible slip: the script's name goes into the archive's name as it is
archiveTestAfterProbeNoSanitize(call, installed) ==
  IF ~installed
    THEN [call EXCEPT !.pc = "done",
                      !.error = Msg("k6 is not installed. Please install k6 to archive scripts.",
                                    <<>>, <<>>)]
  ELSE LET scriptName == ParseName(call.scriptPath)
           archiveOutput ==
             join(IF call.outputDirectory = Undefined THEN <<".">> ELSE call.outputDirectory,
                  ArchivePrefix \o scriptName \o <<"-">> \o NumberToString(now)
                    \o TarExtension)
       IN  [call EXCEPT !.pc = "cmd", !.archiveOutput = archiveOutput, !.commands = 1]

\* archiveTest from the probe's end to the second await: the archive's name is
\* made from the script's name and the clock, and the archive command is started
archiveTestAfterProbe(call, installed) ==
  IF ~installed
    THEN [call EXCEPT !.pc = "done",
                      !.error = Msg("k6 is not installed. Please install k6 to archive scripts.",
                                    <<>>, <<>>)]
  ELSE LET scriptName == ParseName(call.scriptPath)
           sanitizedScriptName == sanitizeText(scriptName)
           archiveOutput ==
             join(IF call.outputDirectory = Undefined THEN <<".">> ELSE call.outputDirectory,
                  ArchivePrefix \o sanitizedScriptName \o <<"-">> \o NumberToString(now)
                    \o TarExtension)
       IN  [call EXCEPT !.pc = "cmd", !.archiveOutput = archiveOutput, !.commands = 1]

\* a plausible slip: the archive is not looked for after the command
archiveTestAfterCommandNoExistsCheck(call, exit, stderr, fs) ==
  IF exit # 0
    THEN [call EXCEPT !.pc = "done",
                      !.error = Msg("Failed to archive the script: ", <<>>,
                                    <<Msg("Command failed: ",
                                          <<call.archiveOutput, call.scriptPath, stderr>>, <<>>)>>)]
  ELSE [call EXCEPT !.pc = "done",
                    !.result = ArchiveResultOf(call.archiveOutput, call.scriptPath)]

\* a plausible slip: the error for a missing archive leaves the error stream out
archiveTestAfterCommandNoStderr(call, exit, stderr, fs) ==
  IF exit # 0
    THEN [call EXCEPT !.pc = "done",
                      !.error = Msg("Failed to archive the script: ", <<>>,
                                    <<Msg("Command failed: ",
                                          <<call.archiveOutput, call.scriptPath, stderr>>, <<>>)>>)]
  ELSE IF call.archiveOutput \notin DOMAIN fs
    THEN [call EXCEPT !.pc = "done",
                      !.error = Msg("Failed to archive the script: ", <<>>,
                                    <<Msg("Failed to create archive: ", <<>>, <<>>)>>)]
  ELSE [call EXCEPT !.pc = "done",
                    !.result = ArchiveResultOf(call.archiveOutput, call.scriptPath)]

\* archiveTest from the archive command's end to its own: a failed command and a
\* missing file both end in the outer catch; fs is the filesystem the command left
archiveTestAfterCommand(call, exit, stderr, fs) ==
  IF exit # 0
    THEN [call EXCEPT !.pc = "done",
                      !.error = Msg("Failed to archive the script: ", <<>>,
                                    <<Msg("Command failed: ",
                                          <<call.archiveOutput, call.scriptPath, stderr>>, <<>>)>>)]
  ELSE IF call.archiveOutput \notin DOMAIN fs
    THEN [call EXCEPT !.pc = "done",
                      !.error = Msg("Failed to archive the script: ", <<>>,
                                    <<Msg("Failed to create archive: ", <<stderr>>, <<>>)>>)]
  ELSE [call EXCEPT !.pc = "done",
                    !.result = ArchiveResultOf(call.archiveOutput, call.scriptPath)]

\* the filesystem with a file of size bytes of value byte at path
WriteFile(fs, path, size, byte) ==
  [p \in DOMAIN fs \cup {path} |->
     IF p = path THEN [size |-> size, byte |-> byte] ELSE fs[p]]

\* the filesystem without path
RemoveFile(fs, path) == [p \in DOMAIN fs \ {path} |-> fs[p]]

Log(i, texts) == console \cup {[call |-> i, text |-> t] : t \in texts}

ArchiveCall(scriptPath, outputDirectory) ==
  /\ Len(calls) < MaxCalls
  /\ calls' = Append(calls, archiveTestEntry(scriptPath, outputDirectory))
  /\ UNCHANGED <<envVars, san, fsys, now, cluster, console, envOps>>

ArchiveProbeDone(i, installed) ==
  /\ calls[i].op = "archive" /\ calls[i].pc = "probe"
  /\ calls' = [calls EXCEPT ![i] =
                 [archiveTestAfterProbe(calls[i], installed)
                    EXCEPT !.probe = IF installed THEN "ok" ELSE "failed"]]
  /\ console' = IF installed THEN Log(i, {"Archiving script with command: "}) ELSE console
  /\ UNCHANGED <<envVars, san, fsys, now, cluster, envOps>>

\* the archive command ends: it has written the archive or not, whatever its exit
\* status, and archiveTest goes on from there
\* the archive command has run, for a millisecond at the least, and its outcome
\* reaches archiveTest
ArchiveCommandDone(i, exit, stderr, written, size) ==
  /\ calls[i].op = "archive" /\ calls[i].pc = "cmd"
  /\ LET fs == IF written THEN WriteFile(fsys, calls[i].archiveOutput, size, ToolByte) ELSE fsys
         after == archiveTestAfterCommand(calls[i], exit, stderr, fs)
     IN  /\ fsys' = fs
         /\ calls' = [calls EXCEPT ![i] =
                        [after EXCEPT !.wrote = IF written THEN {calls[i].archiveOutput} ELSE {},
                                      !.tool = [exit |-> exit, stderr |-> stderr,
                                                found |-> calls[i].archiveOutput \in DOMAIN fs]]]
         /\ console' = Log(i, (IF exit = 0 THEN {"Standard Output:", "Standard Error:"} ELSE {})
                              \cup (IF Returned(after)
                                      THEN {"Archive created successfully at: "} ELSE {}))
  /\ now' = now + 1
  /\ UNCHANGED <<envVars, san, cluster, envOps>>

-----------------------------------------------------------------------------
(* The cluster, as createConfigMap and deleteConfigMap meet it *)

\* the parts of s between the occurrences of character c
RECURSIVE SplitBy(_, _)
SplitBy(s, c) ==
  LET cut == {i \in 1..Len(s) : s[i] = c}
  IN  IF cut = {} THEN <<s>>
      ELSE LET i == CHOOSE k \in cut : \A j \in cut : k <= j
           IN  <<SubSeq(s, 1, i - 1)>> \o SplitBy(SubSeq(s, i + 1, Len(s)), c)

\* the names the cluster takes for a ConfigMap (a DNS-1123 subdomain): labels of
\* [a-z0-9-] that start and end with [a-z0-9], joined by dots
IsDns1123Subdomain(name) ==
  LET labels == SplitBy(name, ".")
  IN  \A k \in 1..Len(labels) :
        /\ labels[k] # <<>>
        /\ \A j \in 1..Len(labels[k]) : IsAlnum(labels[k][j]) \/ labels[k][j] = "-"
        /\ IsAlnum(labels[k][1])
        /\ IsAlnum(labels[k][Len(labels[k])])

\* a plausible slip: the request sent is one that replaces what is there
ClusterCreateOrReplace(namespace, body, transport) ==
  IF transport # "ok" THEN ApiError(transport)
  ELSE IF ~IsDns1123Subdomain(body.metadata.name) THEN ApiError("Invalid")
  ELSE NoError

\* a slip in reading the cluster: names taken as unique across namespaces
ClusterCreateAcrossNamespaces(namespace, body, transport) ==
  IF transport # "ok" THEN ApiError(transport)
  ELSE IF ~IsDns1123Subdomain(body.metadata.name) THEN ApiError("Invalid")
  ELSE IF \E k \in DOMAIN cluster : k[2] = body.metadata.name THEN ApiError("AlreadyExists")
  ELSE NoError

\* how the cluster answers a create request: NoError, or the error the client throws
ClusterCreate(namespace, body, transport) ==
  IF transport # "ok" THEN ApiError(transport)
  ELSE IF ~IsDns1123Subdomain(body.metadata.name) THEN ApiError("Invalid")
  ELSE IF <<namespace, body.metadata.name>> \in DOMAIN cluster THEN ApiError("AlreadyExists")
  ELSE NoError

\* how the cluster answers a delete request
ClusterDelete(namespace, name, transport) ==
  IF transport # "ok" THEN ApiError(transport)
  ELSE IF <<namespace, name>> \notin DOMAIN cluster THEN ApiError("NotFound")
  ELSE NoError

-----------------------------------------------------------------------------
(* createConfigMap and deleteConfigMap, cut at their awaits *)

\* a plausible slip: the archive is not looked for before the stat
createConfigMapEntryNoExistsCheck(archiveResult, namespace) ==
  [op |-> "publish", pc |-> "stat",
   archiveResult |-> archiveResult, namespace |-> namespace,
   archiveExisted |-> existsSync(archiveResult.archivePath),
   stats |-> NoStats, read |-> NoContent,
   configMapName |-> Undefined, configMap |-> Undefined,
   requests |-> 0, response |-> NoError,
   result |-> Undefined, error |-> NoError]

\* createConfigMap from the call to the first await (the stat)
createConfigMapEntry(archiveResult, namespace) ==
  LET call == [op |-> "publish", pc |-> "stat",
               archiveResult |-> archiveResult, namespace |-> namespace,
               archiveExisted |-> existsSync(archiveResult.archivePath),
               stats |-> NoStats, read |-> NoContent,
               configMapName |-> Undefined, configMap |-> Undefined,
               requests |-> 0, response |-> NoError,
               result |-> Undefined, error |-> NoError]
  IN  IF ~existsSync(archiveResult.archivePath)
        THEN [call EXCEPT !.pc = "done",
                          !.error = Msg("Archive file not found at path: ",
                                        <<archiveResult.archivePath>>, <<>>)]
      ELSE call

\* a plausible slip: >= for > in the size check
createConfigMapAfterStatOffByOne(call) ==
  LET path == call.archiveResult.archivePath
  IN  IF ~existsSync(path)
        THEN [call EXCEPT !.pc = "done",
                          !.error = Msg("ENOENT: no such file or directory, stat ", <<path>>, <<>>)]
      ELSE LET stats == [size |-> fsys[path].size]
           IN  IF stats.size >= MaxConfigMapSize
                 THEN [call EXCEPT !.pc = "done", !.stats = stats,
                                   !.error = Msg("Archive file is too large to be stored in a configmap (size: ",
                                                 <<NumberToString(stats.size)>>, <<>>)]
               ELSE [call EXCEPT !.pc = "read", !.stats = stats,
                                 !.configMapName = ParseName(call.archiveResult.archiveFilename)]

\* createConfigMap from the stat's end to the second await (the read): the size
\* check, then the resource's name
createConfigMapAfterStat(call) ==
  LET path == call.archiveResult.archivePath
  IN  IF ~existsSync(path)
        THEN [call EXCEPT !.pc = "done",
                          !.error = Msg("ENOENT: no such file or directory, stat ", <<path>>, <<>>)]
      ELSE LET stats == [size |-> fsys[path].size]
           IN  IF stats.size > MaxConfigMapSize
                 THEN [call EXCEPT !.pc = "done", !.stats = stats,
                                   !.error = Msg("Archive file is too large to be stored in a configmap (size: ",
                                                 <<NumberToString(stats.size)>>, <<>>)]
               ELSE [call EXCEPT !.pc = "read", !.stats = stats,
                                 !.configMapName = ParseName(call.archiveResult.archiveFilename)]

\* a plausible slip: the archive is read as 'hex'
createConfigMapAfterReadHex(call) ==
  LET path == call.archiveResult.archivePath
  IN  IF ~existsSync(path)
        THEN [call EXCEPT !.pc = "done",
                          !.error = Msg("ENOENT: no such file or directory, open ", <<path>>, <<>>)]
      ELSE LET fileContent == HexOf(fsys[path])
               configMap == [apiVersion |-> "v1", kind |-> "ConfigMap",
                             metadata |-> [name |-> call.configMapName,
                                           namespace |-> call.namespace],
                             binaryData |-> (call.archiveResult.archiveFilename :> fileContent)]
           IN  [call EXCEPT !.pc = "create", !.configMap = configMap, !.requests = 1]

\* createConfigMap from the read's end to the third await: the ConfigMap is built
\* and the create request is sent
createConfigMapAfterRead(call) ==
  LET path == call.archiveResult.archivePath
  IN  IF ~existsSync(path)
        THEN [call EXCEPT !.pc = "done",
                          !.error = Msg("ENOENT: no such file or directory, open ", <<path>>, <<>>)]
      ELSE LET fileContent == Base64Of(fsys[path])
               configMap == [apiVersion |-> "v1", kind |-> "ConfigMap",
                             metadata |-> [name |-> call.configMapName,
                                           namespace |-> call.namespace],
                             binaryData |-> (call.archiveResult.archiveFilename :> fileContent)]
           IN  [call EXCEPT !.pc = "create", !.configMap = configMap, !.requests = 1]

\* a plausible slip: the result names the archive by its file name alone
createConfigMapAfterCreateBareName(call, apiError) ==
  IF apiError.text # ""
    THEN [call EXCEPT !.pc = "done", !.response = apiError, !.error = apiError]
  ELSE [call EXCEPT !.pc = "done",
                    !.result = [namespace |-> call.namespace,
                                configMapName |-> call.configMapName,
                                archivePath |-> call.archiveResult.archiveFilename,
                                archiveFilename |-> call.archiveResult.archiveFilename]]

\* a plausible slip: a refused create request is sent once more
createConfigMapAfterCreateRetry(call, apiError) ==
  IF apiError.text # "" /\ call.requests < 2
    THEN [call EXCEPT !.requests = @ + 1, !.response = apiError]
  ELSE IF apiError.text # ""
    THEN [call EXCEPT !.pc = "done", !.response = apiError, !.error = apiError]
  ELSE [call EXCEPT !.pc = "done",
                    !.result = [namespace |-> call.namespace,
                                configMapName |-> call.configMapName,
                                archivePath |-> call.archiveResult.archivePath,
                                archiveFilename |-> call.archiveResult.archiveFilename]]

\* createConfigMap from the create request's end to its own: the client's error
\* leaves the function as it is, there is no catch
createConfigMapAfterCreate(call, apiError) ==
  IF apiError.text # ""
    THEN [call EXCEPT !.pc = "done", !.response = apiError, !.error = apiError]
  ELSE [call EXCEPT !.pc = "done",
                    !.result = [namespace |-> call.namespace,
                                configMapName |-> call.configMapName,
                                archivePath |-> call.archiveResult.archivePath,
                                archiveFilename |-> call.archiveResult.archiveFilename]]

\* deleteConfigMap from the call to its await: the delete request is sent
deleteConfigMapEntry(configMapName, namespace) ==
  [op |-> "retract", pc |-> "delete",
   configMapName |-> configMapName, namespace |-> namespace,
   requests |-> 1, response |-> NoError, error |-> NoError]

\* a plausible slip: the client's error leaves deleteConfigMap as it came
deleteConfigMapAfterDeleteNoWrap(call, apiError) ==
  IF apiError.text # ""
    THEN [call EXCEPT !.pc = "done", !.response = apiError, !.error = apiError]
  ELSE [call EXCEPT !.pc = "done"]

\* a plausible slip: deleting what is not there counts as done
deleteConfigMapAfterDeleteIgnoreNotFound(call, apiError) ==
  IF apiError.text # "" /\ apiError.text # "NotFound"
    THEN [call EXCEPT !.pc = "done", !.response = apiError,
                      !.error = Msg("Failed to delete ConfigMap ",
                                    <<call.configMapName, call.namespace>>, <<apiError>>)]
  ELSE [call EXCEPT !.pc = "done", !.response = apiError]

\* a plausible slip: the catch logs the error and does not throw
deleteConfigMapAfterDeleteSwallow(call, apiError) ==
  [call EXCEPT !.pc = "done", !.response = apiError]

\* deleteConfigMap from the delete request's end to its own
deleteConfigMapAfterDelete(call, apiError) ==
  IF apiError.text # ""
    THEN [call EXCEPT !.pc = "done", !.response = apiError,
                      !.error = Msg("Failed to delete ConfigMap ",
                                    <<call.configMapName, call.namespace>>, <<apiError>>)]
  ELSE [call EXCEPT !.pc = "done"]

\* the ArchiveResults a caller has to hand
KnownArchiveResults ==
  HandMadeResults \cup {calls[i].result : i \in {j \in Calls("archive") : Returned(calls[j])}}

\* the resource names a caller has to hand
KnownConfigMapNames ==
  {ParseName(HandMadePath)}
    \cup {calls[i].result.configMapName : i \in {j \in Calls("publish") : Returned(calls[j])}}

PublishCall(archiveResult, namespace) ==
  /\ Len(calls) < MaxCalls
  /\ calls' = Append(calls, createConfigMapEntry(archiveResult, namespace))
  /\ UNCHANGED <<envVars, san, fsys, now, cluster, console, envOps>>

PublishStatDone(i) ==
  /\ calls[i].op = "publish" /\ calls[i].pc = "stat"
  /\ calls' = [calls EXCEPT ![i] = createConfigMapAfterStat(calls[i])]
  /\ UNCHANGED <<envVars, san, fsys, now, cluster, console, envOps>>

PublishReadDone(i) ==
  /\ calls[i].op = "publish" /\ calls[i].pc = "read"
  /\ LET path == calls[i].archiveResult.archivePath
     IN  calls' = [calls EXCEPT ![i] =
                     [createConfigMapAfterRead(calls[i])
                        EXCEPT !.read = IF existsSync(path) THEN fsys[path] ELSE NoContent]]
  /\ UNCHANGED <<envVars, san, fsys, now, cluster, console, envOps>>

\* the cluster decides on the create request and the answer reaches createConfigMap
PublishCreateDone(i, transport) ==
  /\ calls[i].op = "publish" /\ calls[i].pc = "create"
  /\ LET apiError == ClusterCreate(calls[i].namespace, calls[i].configMap, transport)
         key == <<calls[i].namespace, calls[i].configMap.metadata.name>>
     IN  /\ calls' = [calls EXCEPT ![i] = createConfigMapAfterCreate(calls[i], apiError)]
         /\ cluster' = IF apiError.text = ""
                         THEN [k \in DOMAIN cluster \cup {key} |->
                                 IF k = key THEN calls[i].configMap.binaryData ELSE cluster[k]]
                       ELSE cluster
         /\ console' = IF apiError.text = "" THEN Log(i, {"ConfigMap created in namespace"})
                       ELSE console
  /\ UNCHANGED <<envVars, san, fsys, now, envOps>>

RetractCall(configMapName, namespace) ==
  /\ Len(calls) < MaxCalls
  /\ calls' = Append(calls, deleteConfigMapEntry(configMapName, namespace))
  /\ UNCHANGED <<envVars, san, fsys, now, cluster, console, envOps>>

\* the cluster decides on the delete request and the answer reaches deleteConfigMap
RetractDeleteDone(i, transport) ==
  /\ calls[i].op = "retract" /\ calls[i].pc = "delete"
  /\ LET apiError == ClusterDelete(calls[i].namespace, calls[i].configMapName, transport)
         key == <<calls[i].namespace, calls[i].configMapName>>
     IN  /\ calls' = [calls EXCEPT ![i] = deleteConfigMapAfterDelete(calls[i], apiError)]
         /\ cluster' = IF apiError.text = ""
                         THEN [k \in DOMAIN cluster \ {key} |-> cluster[k]]
                       ELSE cluster
         /\ console' = IF apiError.text = "" THEN Log(i, {"ConfigMap deleted from namespace"})
                       ELSE console
  /\ UNCHANGED <<envVars, san, fsys, now, envOps>>

-----------------------------------------------------------------------------
(* What happens outside the process *)

\* the archive files something else may touch: the ones a caller has to hand
ArchivePaths == {r.archivePath : r \in KnownArchiveResults}

EnvWrite(path, size) ==
  /\ envOps < MaxEnvOps
  /\ fsys' = WriteFile(fsys, path, size, EnvByte)
  /\ envOps' = envOps + 1
  /\ UNCHANGED <<envVars, san, now, cluster, calls, console>>

EnvRemove(path) ==
  /\ envOps < MaxEnvOps
  /\ path \in DOMAIN fsys
  /\ fsys' = RemoveFile(fsys, path)
  /\ envOps' = envOps + 1
  /\ UNCHANGED <<envVars, san, now, cluster, calls, console>>

\* a millisecond passes
Tick ==
  /\ now < MaxNow
  /\ now' = now + 1
  /\ UNCHANGED <<envVars, san, fsys, cluster, calls, console, envOps>>

-----------------------------------------------------------------------------
(* utils/env: the .env file, its validation and the cache *)

\* bounds of the .env specification
MaxEnvSteps == 3
MaxFileOps == 1

\* cachedEnv when it is null
NullEnv == [null |-> TRUE, vars |-> <<>>]

\* no file at a path
NoFile == [exists |-> FALSE, lines |-> <<>>]

FileOf(lines) == [exists |-> TRUE, lines |-> lines]

\* the path loadAndValidateEnv takes when none is given, and another one
DefaultEnvPath == ".env"
OtherEnvPath == ".env.production"
EnvPaths == {DefaultEnvPath, OtherEnvPath}

\* the lines the files are made of
LineAx == <<"A", "=", "x">>
LineAy == <<"A", "=", "y">>
LineBy == <<"B", "=", "y">>
LineLower == <<"a", "=", "x">>
LineNoValue == <<"A", "=">>
LineTab == <<"B", "=", "x", "\t", "y">>

EnvContents ==
  {<<LineAx>>, <<LineAy>>, <<LineAx, LineBy>>, <<LineLower>>, <<LineNoValue>>,
   <<LineLower, LineAx, LineTab>>, <<LineNoValue, LineLower>>}

\* the names the callers ask for
EnvKeys == {<<"A">>, <<"B">>}

\* dotenv's parse of one line: the name before the first "=" and the value after
\* it; a line with no name or no "=" gives nothing
ParseLine(line) ==
  LET eq == {i \in 1..Len(line) : line[i] = "="}
  IN  IF eq = {} THEN <<>>
      ELSE LET i == CHOOSE k \in eq : \A j \in eq : k <= j
           IN  IF i = 1 THEN <<>>
               ELSE <<[key |-> SubSeq(line, 1, i - 1), val |-> SubSeq(line, i + 1, Len(line))]>>

\* obj[key] = val on an object kept in insertion order
PutEntry(entries, e) ==
  IF \E i \in 1..Len(entries) : entries[i].key = e.key
    THEN [i \in 1..Len(entries) |-> IF entries[i].key = e.key THEN e ELSE entries[i]]
  ELSE Append(entries, e)

\* dotenv's parse of the file's text
RECURSIVE DotenvParse(_)
DotenvParse(lines) ==
  IF lines = <<>> THEN <<>>
  ELSE LET before == DotenvParse(SubSeq(lines, 1, Len(lines) - 1))
           parsed == ParseLine(lines[Len(lines)])
       IN  IF parsed = <<>> THEN before ELSE PutEntry(before, parsed[1])

\* /^[A-Z][A-Z0-9_]*$/
KeyPatternTest(key) ==
  /\ Len(key) > 0
  /\ key[1] \in Upper
  /\ \A i \in 2..Len(key) : key[i] \in Upper \cup Digit \cup {"_"}

\* the printable ASCII characters the model writes values with
Printable == Lower \cup Upper \cup Digit \cup {" ", "_", "-", ".", "=", "/"}

\* /^[\x20-\x7E]*$/
ValuePatternTest(val) == \A i \in 1..Len(val) : val[i] \in Printable

\* what the validation loop pushes to errors for one variable, if anything
\* (the texts without their accents)
EntryErrors(e) ==
  IF ~KeyPatternTest(e.key) THEN <<Msg("Nombre invalido: ", <<e.key>>, <<>>)>>
  ELSE IF e.val = <<>> THEN <<Msg("Variable no tiene valor", <<e.key>>, <<>>)>>
  ELSE IF ~ValuePatternTest(e.val)
    THEN <<Msg("Valor invalido en (contiene caracteres no permitidos)", <<e.key>>, <<>>)>>
  ELSE <<>>

\* a plausible slip: the loop throws at the first variable it refuses
ValidationErrorsFirstOnly(entries) ==
  LET bad == {i \in 1..Len(entries) : EntryErrors(entries[i]) # <<>>}
  IN  IF bad = {} THEN <<>>
      ELSE EntryErrors(entries[CHOOSE i \in bad : \A j \in bad : i <= j])

\* the validation loop: the errors pushed and the variables kept, in order
RECURSIVE ValidationErrors(_)
ValidationErrors(entries) ==
  IF entries = <<>> THEN <<>>
  ELSE ValidationErrors(SubSeq(entries, 1, Len(entries) - 1))
         \o EntryErrors(entries[Len(entries)])

RECURSIVE ValidEntries(_)
ValidEntries(entries) ==
  IF entries = <<>> THEN <<>>
  ELSE ValidEntries(SubSeq(entries, 1, Len(entries) - 1))
         \o (IF EntryErrors(entries[Len(entries)]) = <<>> THEN <<entries[Len(entries)]>>
             ELSE <<>>)

\* loadAndValidateEnv: the outcome of a call made with cache as cachedEnv: the
\* error thrown if any, the object returned, the reads of the file made, and
\* cachedEnv afterwards
loadAndValidateEnv(cache, envFilePath) ==
  LET file == envFiles[envFilePath]
      envVarsParsed == DotenvParse(file.lines)
      errors == ValidationErrors(envVarsParsed)
      result == ValidEntries(envVarsParsed)
  IN  IF ~file.exists
        THEN [error |-> Msg("Archivo .env no encontrado: ", <<envFilePath>>, <<>>),
              result |-> <<>>, reads |-> 0, cachedEnv |-> cache]
      ELSE IF errors # <<>>
        THEN [error |-> Msg("Errores en variables de ambiente:", errors, <<>>),
              result |-> <<>>, reads |-> 1, cachedEnv |-> cache]
      ELSE [error |-> NoError, result |-> result, reads |-> 1,
            cachedEnv |-> [null |-> FALSE, vars |-> result]]

\* a plausible slip: the cache is not looked at
ensureEnvLoadedNoCache(cache) == loadAndValidateEnv(cache, DefaultEnvPath)

\* ensureEnvLoaded: as loadAndValidateEnv, with the cache returned when there is one
ensureEnvLoaded(cache) ==
  IF cache.null THEN loadAndValidateEnv(cache, DefaultEnvPath)
  ELSE [error |-> NoError, result |-> cache.vars, reads |-> 0, cachedEnv |-> cache]

\* a plausible slip: the reset leaves the cache as it is
resetEnvCacheKeep(cache) == cache

\* resetEnvCache: cachedEnv afterwards
resetEnvCache(cache) == NullEnv

\* env[key] on the loaded object
Lookup(entries, key) ==
  IF \E i \in 1..Len(entries) : entries[i].key = key
    THEN entries[CHOOSE i \in 1..Len(entries) : entries[i].key = key].val
  ELSE Undefined

\* key in env
HasKey(entries, key) == \E i \in 1..Len(entries) : entries[i].key = key

\* what a call gives its caller: a string or undefined, a boolean, an object,
\* or an error thrown
NoOut == [value |-> Undefined, has |-> FALSE, all |-> <<>>, error |-> NoError]

\* the outcome of an accessor: what ensureEnvLoaded did, and what the caller gets
Outcome(loaded, out) ==
  [cachedEnv |-> loaded.cachedEnv, reads |-> loaded.reads,
   out |-> IF loaded.error.text # "" THEN [NoOut EXCEPT !.error = loaded.error] ELSE out]

getEnvVar(cache, key, defaultValue) ==
  LET loaded == ensureEnvLoaded(cache)
      value == Lookup(loaded.result, key)
  IN  Outcome(loaded, [NoOut EXCEPT !.value = IF value = Undefined THEN defaultValue
                                              ELSE value])

requireEnvVar(cache, key) ==
  LET loaded == ensureEnvLoaded(cache)
      value == Lookup(loaded.result, key)
  IN  Outcome(loaded,
              IF value = Undefined \/ value = <<>>
                THEN [NoOut EXCEPT !.error =
                        Msg("Variable de entorno requerida no encontrada: ", <<key>>, <<>>)]
              ELSE [NoOut EXCEPT !.value = value])

getAllEnvVars(cache) ==
  LET loaded == ensureEnvLoaded(cache)
  IN  Outcome(loaded, [NoOut EXCEPT !.all = loaded.result])

hasEnvVar(cache, key) ==
  LET loaded == ensureEnvLoaded(cache)
  IN  Outcome(loaded, [NoOut EXCEPT !.has = HasKey(loaded.result, key)])

\* the env proxy's get trap
envGet(cache, prop) ==
  LET loaded == ensureEnvLoaded(cache)
  IN  Outcome(loaded, [NoOut EXCEPT !.value = Lookup(loaded.result, prop)])

\* the calls that read variables
AccessorOps == {"getEnvVar", "requireEnvVar", "getAllEnvVars", "hasEnvVar", "env.get"}

\* the default values the callers pass to getEnvVar
DefaultValues == {Undefined, <<"d">>}

\* the text the last call read, if it read the file
NotRead == [did |-> FALSE, lines |-> <<>>]

NoLast == [op |-> "none", key |-> <<>>, defaultValue |-> Undefined, out |-> NoOut]

\* nothing called yet
EnvTraceIdle ==
  [reads |-> 0, resets |-> 0, steps |-> 0, fileOps |-> 0, sinceReset |-> 0,
   loadedLines |-> <<>>, loadedAt |-> -1, staleVars |-> <<>>,
   lastRead |-> NotRead, last |-> NoLast]

\* the trace after a call of the module has ended with outcome o; path is the
\* file the call reads if it reads one
EnvTraceAfter(op, key, defaultValue, o, path) ==
  LET filled == o.reads = 1 /\ ~o.cachedEnv.null
                  /\ (cachedEnv.null \/ (op = "loadAndValidateEnv" /\ o.out.error.text = ""))
  IN  [envTrace EXCEPT
         !.reads = @ + o.reads,
         !.steps = @ + 1,
         !.sinceReset = @ + 1,
         !.loadedLines = IF filled THEN envFiles[path].lines ELSE @,
         !.loadedAt = IF filled THEN envTrace.resets ELSE @,
         !.lastRead = IF o.reads = 1 THEN [did |-> TRUE, lines |-> envFiles[path].lines]
                      ELSE NotRead,
         !.last = [op |-> op, key |-> key, defaultValue |-> defaultValue, out |-> o.out]]

LoadAndValidateEnv(envFilePath) ==
  /\ envTrace.steps < MaxEnvSteps
  /\ LET l == loadAndValidateEnv(cachedEnv, envFilePath)
         o == [cachedEnv |-> l.cachedEnv, reads |-> l.reads,
               out |-> IF l.error.text # "" THEN [NoOut EXCEPT !.error = l.error]
                       ELSE [NoOut EXCEPT !.all = l.result]]
     IN  /\ cachedEnv' = o.cachedEnv
         /\ envTrace' = EnvTraceAfter("loadAndValidateEnv", <<>>, Undefined, o, envFilePath)
  /\ UNCHANGED <<envFiles, k6cfg, san, fsys, now, cluster, calls, console, envOps>>

GetEnvVar(key, defaultValue) ==
  /\ envTrace.steps < MaxEnvSteps
  /\ LET o == getEnvVar(cachedEnv, key, defaultValue)
     IN  /\ cachedEnv' = o.cachedEnv
         /\ envTrace' = EnvTraceAfter("getEnvVar", key, defaultValue, o, DefaultEnvPath)
  /\ UNCHANGED <<envFiles, k6cfg, san, fsys, now, cluster, calls, console, envOps>>

RequireEnvVar(key) ==
  /\ envTrace.steps < MaxEnvSteps
  /\ LET o == requireEnvVar(cachedEnv, key)
     IN  /\ cachedEnv' = o.cachedEnv
         /\ envTrace' = EnvTraceAfter("requireEnvVar", key, Undefined, o, DefaultEnvPath)
  /\ UNCHANGED <<envFiles, k6cfg, san, fsys, now, cluster, calls, console, envOps>>

GetAllEnvVars ==
  /\ envTrace.steps < MaxEnvSteps
  /\ LET o == getAllEnvVars(cachedEnv)
     IN  /\ cachedEnv' = o.cachedEnv
         /\ envTrace' = EnvTraceAfter("getAllEnvVars", <<>>, Undefined, o, DefaultEnvPath)
  /\ UNCHANGED <<envFiles, k6cfg, san, fsys, now, cluster, calls, console, envOps>>

HasEnvVar(key) ==
  /\ envTrace.steps < MaxEnvSteps
  /\ LET o == hasEnvVar(cachedEnv, key)
     IN  /\ cachedEnv' = o.cachedEnv
         /\ envTrace' = EnvTraceAfter("hasEnvVar", key, Undefined, o, DefaultEnvPath)
  /\ UNCHANGED <<envFiles, k6cfg, san, fsys, now, cluster, calls, console, envOps>>

EnvGet(prop) ==
  /\ envTrace.steps < MaxEnvSteps
  /\ LET o == envGet(cachedEnv, prop)
     IN  /\ cachedEnv' = o.cachedEnv
         /\ envTrace' = EnvTraceAfter("env.get", prop, Undefined, o, DefaultEnvPath)
  /\ UNCHANGED <<envFiles, k6cfg, san, fsys, now, cluster, calls, console, envOps>>

ResetEnvCache ==
  /\ envTrace.steps < MaxEnvSteps
  /\ cachedEnv' = resetEnvCache(cachedEnv)
  /\ envTrace' = [envTrace EXCEPT !.resets = @ + 1, !.steps = @ + 1, !.sinceReset = 0,
                                  !.staleVars = cachedEnv.vars,
                                  !.lastRead = NotRead,
                                  !.last = [NoLast EXCEPT !.op = "resetEnvCache"]]
  /\ UNCHANGED <<envFiles, k6cfg, san, fsys, now, cluster, calls, console, envOps>>

\* something outside the process writes or removes a .env file
EnvFileWrite(path, lines) ==
  /\ envTrace.fileOps < MaxFileOps
  /\ envFiles[path] # FileOf(lines)
  /\ envFiles' = [envFiles EXCEPT ![path] = FileOf(lines)]
  /\ envTrace' = [envTrace EXCEPT !.fileOps = @ + 1]
  /\ UNCHANGED <<cachedEnv, k6cfg, san, fsys, now, cluster, calls, console, envOps>>

EnvFileRemove(path) ==
  /\ envTrace.fileOps < MaxFileOps
  /\ envFiles[path].exists
  /\ envFiles' = [envFiles EXCEPT ![path] = NoFile]
  /\ envTrace' = [envTrace EXCEPT !.fileOps = @ + 1]
  /\ UNCHANGED <<cachedEnv, k6cfg, san, fsys, now, cluster, calls, console, envOps>>

-----------------------------------------------------------------------------
(* loadK6Config: the config file and its schema *)

\* JSON values, and undefined: a field that is not there
Absent == [t |-> "absent", s |-> "", n |-> 0, b |-> FALSE, a |-> <<>>]
Str(s) == [t |-> "string", s |-> s, n |-> 0, b |-> FALSE, a |-> <<>>]
Num(n) == [t |-> "number", s |-> "", n |-> n, b |-> FALSE, a |-> <<>>]
Bool(b) == [t |-> "boolean", s |-> "", n |-> 0, b |-> b, a |-> <<>>]
Arr(a) == [t |-> "array", s |-> "", n |-> 0, b |-> FALSE, a |-> a]

\* the runner and prometheus objects of a config, given or not
NoRunner == [t |-> "absent", image |-> Absent]
RunnerOf(image) == [t |-> "object", image |-> image]
NoPrometheus == [t |-> "absent", serverUrl |-> Absent, trendStats |-> Absent]
PrometheusOf(serverUrl, trendStats) ==
  [t |-> "object", serverUrl |-> serverUrl, trendStats |-> trendStats]

\* {} as JSON.parse gives it
EmptyObject ==
  [namespace |-> Absent, parallelism |-> Absent, arguments |-> Absent,
   cleanup |-> Absent, quiet |-> Absent, separate |-> Absent,
   runner |-> NoRunner, prometheus |-> NoPrometheus]

\* the objects the config files hold
ConfigObjects ==
  [namespace : {Absent, Str("performance"), Num(7)},
   parallelism : {Absent, Num(40), Num(0)},
   arguments : {Absent, Arr(<<"--verbose">>)},
   cleanup : {Absent, Bool(FALSE)},
   quiet : {Absent, Bool(FALSE)},
   separate : {Absent, Bool(TRUE)},
   runner : {NoRunner, RunnerOf(Str("k6:dev")), RunnerOf(Absent)},
   prometheus : {NoPrometheus, PrometheusOf(Str("http://prom-rw:9090"), Absent),
                 PrometheusOf(Str("http://prom-rw:9090"), Arr(<<"avg">>))}]

\* the config file: none, one that is not JSON, or one that holds an object
NoConfigFile == [exists |-> FALSE, json |-> FALSE, obj |-> EmptyObject]
BrokenConfigFile == [exists |-> TRUE, json |-> FALSE, obj |-> EmptyObject]
ConfigFileOf(obj) == [exists |-> TRUE, json |-> TRUE, obj |-> obj]
ConfigFiles == {NoConfigFile, BrokenConfigFile} \cup {ConfigFileOf(obj) : obj \in ConfigObjects}

\* a plausible slip: separate defaults to true
DefaultOfSeparateTrue(field) ==
  IF field = "namespace" THEN Str("default")
  ELSE IF field = "parallelism" THEN Num(1)
  ELSE IF field = "cleanup" THEN Bool(TRUE)
  ELSE IF field = "quiet" THEN Bool(TRUE)
  ELSE IF field = "separate" THEN Bool(TRUE)
  ELSE IF field = "runner.image" THEN Str("grafana/k6:latest")
  ELSE IF field = "prometheus.trendStats"
    THEN Arr(<<"avg", "p(95)", "p(99)", "min", "max">>)
  ELSE Absent

\* the schema's .default(...) values; a field that is .optional() has none
DefaultOf(field) ==
  IF field = "namespace" THEN Str("default")
  ELSE IF field = "parallelism" THEN Num(1)
  ELSE IF field = "cleanup" THEN Bool(TRUE)
  ELSE IF field = "quiet" THEN Bool(TRUE)
  ELSE IF field = "separate" THEN Bool(FALSE)
  ELSE IF field = "runner.image" THEN Str("grafana/k6:latest")
  ELSE IF field = "prometheus.trendStats"
    THEN Arr(<<"avg", "p(95)", "p(99)", "min", "max">>)
  ELSE Absent

\* schema.default(d) and schema.optional() on a value: the value parsed, and
\* whether the inner schema refused it
ZodField(v, type, field) ==
  IF v.t = "absent" THEN [value |-> DefaultOf(field), issue |-> FALSE]
  ELSE [value |-> v, issue |-> v.t # type]

\* K6ConfigSchema.parse: the issues found and the config returned when there
\* are none
K6ConfigSchemaParse(obj) ==
  LET namespace == ZodField(obj.namespace, "string", "namespace")
      parallelism == ZodField(obj.parallelism, "number", "parallelism")
      arguments == ZodField(obj.arguments, "array", "arguments")
      cleanup == ZodField(obj.cleanup, "boolean", "cleanup")
      quiet == ZodField(obj.quiet, "boolean", "quiet")
      separate == ZodField(obj.separate, "boolean", "separate")
      image == IF obj.runner.t = "absent"
                 THEN [value |-> DefaultOf("runner.image"), issue |-> FALSE]
               ELSE [value |-> obj.runner.image, issue |-> obj.runner.image.t # "string"]
      serverUrl == [value |-> obj.prometheus.serverUrl,
                    issue |-> obj.prometheus.t # "absent"
                                /\ obj.prometheus.serverUrl.t # "string"]
      trendStats == IF obj.prometheus.t = "absent" THEN [value |-> Absent, issue |-> FALSE]
                    ELSE ZodField(obj.prometheus.trendStats, "array", "prometheus.trendStats")
      issues ==
        {f \in {"namespace"} : namespace.issue}
          \cup {f \in {"parallelism"} : parallelism.issue \/ parallelism.value.n <= 0}
          \cup {f \in {"arguments"} : arguments.issue}
          \cup {f \in {"cleanup"} : cleanup.issue}
          \cup {f \in {"quiet"} : quiet.issue}
          \cup {f \in {"separate"} : separate.issue}
          \cup {f \in {"runner.image"} : image.issue}
          \cup {f \in {"prometheus.serverUrl"} : serverUrl.issue}
          \cup {f \in {"prometheus.trendStats"} : trendStats.issue}
  IN  [issues |-> issues,
       value |-> [namespace |-> namespace.value, parallelism |-> parallelism.value,
                  arguments |-> arguments.value, cleanup |-> cleanup.value,
                  quiet |-> quiet.value, separate |-> separate.value,
                  runner |-> RunnerOf(image.value),
                  prometheus |-> IF obj.prometheus.t = "absent" THEN NoPrometheus
                                 ELSE PrometheusOf(serverUrl.value, trendStats.value)]]

\* loadK6Config has not been called
NoConfig == [done |-> FALSE, error |-> "", issues |-> {}, log |-> "", value |-> EmptyObject]

\* loadK6Config on a file: the error thrown if any, what the logger was given,
\* and the config returned
loadK6Config(file) ==
  IF ~file.exists
    THEN [done |-> TRUE, error |-> "", issues |-> {},
          log |-> "warn: Config file doesn't exist, using default values.",
          value |-> K6ConfigSchemaParse(EmptyObject).value]
  ELSE IF ~file.json
    THEN [done |-> TRUE, error |-> "Config file exists but is not valid JSON: ",
          issues |-> {}, log |-> "", value |-> EmptyObject]
  ELSE LET parsed == K6ConfigSchemaParse(file.obj)
       IN  IF parsed.issues # {}
             THEN [done |-> TRUE, error |-> "ZodError", issues |-> parsed.issues,
                   log |-> "info: Loaded config from", value |-> EmptyObject]
           ELSE [done |-> TRUE, error |-> "", issues |-> {},
                 log |-> "info: Loaded config from", value |-> parsed.value]

CfgIdle == [file |-> NoConfigFile, out |-> NoConfig]

LoadK6Config ==
  /\ ~k6cfg.out.done
  /\ k6cfg' = [k6cfg EXCEPT !.out = loadK6Config(k6cfg.file)]
  /\ UNCHANGED <<cachedEnv, envFiles, envTrace, san, fsys, now, cluster, calls, console, envOps>>

\* the module as it is when nothing of it is in use
EnvIdle ==
  /\ cachedEnv = NullEnv
  /\ envFiles = [p \in EnvPaths |-> NoFile]
  /\ envTrace = EnvTraceIdle
  /\ k6cfg = CfgIdle

-----------------------------------------------------------------------------
(* The specification of the three operations *)

SanIdle == [text |-> NotYet, once |-> NotYet, twice |-> NotYet]

Init ==
  /\ san = SanIdle
  /\ fsys = [p \in {ScriptAB, ScriptUnderscore, DirOut, HandMadePath} |->
               [size |-> IF p = HandMadePath THEN MaxConfigMapSize ELSE 1, byte |-> ToolByte]]
  /\ now = 1
  /\ cluster = <<>>
  /\ calls = <<>>
  /\ console = {}
  /\ envOps = 0
  /\ EnvIdle

Next ==
  \/ \E scriptPath \in ScriptPaths, outputDirectory \in OutputDirectories :
       ArchiveCall(scriptPath, outputDirectory)
  \/ \E i \in 1..Len(calls), installed \in BOOLEAN : ArchiveProbeDone(i, installed)
  \/ \E i \in 1..Len(calls), exit \in {0, 1}, stderr \in Stderrs,
        written \in BOOLEAN, size \in ToolSizes :
       ArchiveCommandDone(i, exit, stderr, written, size)
  \/ \E archiveResult \in KnownArchiveResults, namespace \in Namespaces :
       PublishCall(archiveResult, namespace)
  \/ \E i \in 1..Len(calls) : PublishStatDone(i)
  \/ \E i \in 1..Len(calls) : PublishReadDone(i)
  \/ \E i \in 1..Len(calls), transport \in Transports : PublishCreateDone(i, transport)
  \/ \E configMapName \in KnownConfigMapNames, namespace \in Namespaces :
       RetractCall(configMapName, namespace)
  \/ \E i \in 1..Len(calls), transport \in Transports : RetractDeleteDone(i, transport)
  \/ \E path \in ArchivePaths, size \in Sizes : EnvWrite(path, size)
  \/ \E path \in ArchivePaths : EnvRemove(path)
  \/ Tick

Spec == Init /\ [][Next]_vars

-----------------------------------------------------------------------------
(* The sanitizer on its own: every string up to MaxLen over SanAlphabet *)

SanAlphabet == {"a", "B", "1", "_", "-", ".", " "}

SanInputs == UNION {[1..n -> SanAlphabet] : n \in 0..MaxLen}

SanInit ==
  /\ san \in {[text |-> t, once |-> NotYet, twice |-> NotYet] : t \in SanInputs}
  /\ fsys = <<>>
  /\ now = 1
  /\ cluster = <<>>
  /\ calls = <<>>
  /\ console = {}
  /\ envOps = 0
  /\ EnvIdle

\* sanitizeText applied to the input
SanitizeOnce ==
  /\ san.once = NotYet
  /\ san' = [san EXCEPT !.once = sanitizeText(san.text)]
  /\ UNCHANGED <<envVars, fsys, now, cluster, calls, console, envOps>>

\* sanitizeText applied to its own result
SanitizeTwice ==
  /\ san.once # NotYet /\ san.twice = NotYet
  /\ san' = [san EXCEPT !.twice = sanitizeText(san.once)]
  /\ UNCHANGED <<envVars, fsys, now, cluster, calls, console, envOps>>

SanNext == SanitizeOnce \/ SanitizeTwice

SanSpec == SanInit /\ [][SanNext]_vars

-----------------------------------------------------------------------------
(* utils/env on its own: a process that starts with some .env file, or none *)

EnvInit ==
  /\ cachedEnv = NullEnv
  /\ envFiles \in {[p \in EnvPaths |-> IF p = DefaultEnvPath THEN f ELSE NoFile] :
                     f \in {NoFile} \cup {FileOf(lines) : lines \in EnvContents}}
  /\ envTrace = EnvTraceIdle
  /\ k6cfg = CfgIdle
  /\ san = SanIdle
  /\ fsys = <<>>
  /\ now = 1
  /\ cluster = <<>>
  /\ calls = <<>>
  /\ console = {}
  /\ envOps = 0

EnvNext ==
  \/ \E envFilePath \in EnvPaths : LoadAndValidateEnv(envFilePath)
  \/ \E key \in EnvKeys, defaultValue \in DefaultValues : GetEnvVar(key, defaultValue)
  \/ \E key \in EnvKeys : RequireEnvVar(key)
  \/ GetAllEnvVars
  \/ \E key \in EnvKeys : HasEnvVar(key)
  \/ \E prop \in EnvKeys : EnvGet(prop)
  \/ ResetEnvCache
  \/ \E path \in EnvPaths, lines \in EnvContents : EnvFileWrite(path, lines)
  \/ \E path \in EnvPaths : EnvFileRemove(path)

EnvSpec == EnvInit /\ [][EnvNext]_vars

-----------------------------------------------------------------------------
(* loadK6Config on its own: one call on each of the config files *)

CfgInit ==
  /\ k6cfg \in {[file |-> f, out |-> NoConfig] : f \in ConfigFiles}
  /\ cachedEnv = NullEnv
  /\ envFiles = [p \in EnvPaths |-> NoFile]
  /\ envTrace = EnvTraceIdle
  /\ san = SanIdle
  /\ fsys = <<>>
  /\ now = 1
  /\ cluster = <<>>
  /\ calls = <<>>
  /\ console = {}
  /\ envOps = 0

CfgNext == LoadK6Config

CfgSpec == CfgInit /\ [][CfgNext]_vars

-----------------------------------------------------------------------------
(* The claims *)

\* s holds character c twice in a row
HasRun(s, c) == \E i \in 1..(Len(s) - 1) : s[i] = c /\ s[i + 1] = c

\* s starts or ends with "-" or "."
HasEdge(s) == Len(s) > 0 /\ (IsHyphenOrDot(s[1]) \/ IsHyphenOrDot(s[Len(s)]))

\* C1: sanitizing the result of the sanitizer gives that result again:
\* sanitize(sanitize(s)) = sanitize(s), for every input string s.
C1_SanitizeIdempotent == san.twice # NotYet => san.twice = san.once

\* C1's case: an input the sanitizer changed has been sanitized twice
C1_Witness ==
  /\ san.twice # NotYet
  /\ san.once # san.text
  /\ san.once # <<>>
  /\ HasRun(san.text, "_")

\* C2: the sanitizer's result neither starts nor ends with "-" or ".", and holds
\* neither "--" nor "..".
C2_SanitizeNoEdgeNoRun ==
  san.once # NotYet =>
    /\ ~HasEdge(san.once)
    /\ ~HasRun(san.once, "-")
    /\ ~HasRun(san.once, ".")

\* C2's case: an input with such an edge and such a run, and a result that is
\* not empty
C2_Witness ==
  /\ san.once # NotYet
  /\ san.once # <<>>
  /\ HasEdge(san.text)
  /\ HasRun(san.text, ".") \/ HasRun(san.text, "-") \/ HasRun(san.text, "_")

\* the resource names the data model allows: [a-z0-9.-] only, no "-" or "." at
\* either end, no run of "-" or of "."
ValidResourceName(name) ==
  /\ \A k \in 1..Len(name) : IsNameChar(name[k])
  /\ ~HasEdge(name)
  /\ ~HasRun(name, "-")
  /\ ~HasRun(name, ".")

\* C3: every ConfigMapResult createConfigMap returns has a configMapName that is
\* a valid resource name in the data model's sense, also for the archive of a
\* script whose name sanitizes to the empty string.
C3_ConfigMapNameValid ==
  \A i \in Calls("publish") :
    Returned(calls[i]) => ValidResourceName(calls[i].result.configMapName)

\* C4: the configMapName createConfigMap returns is the sanitizer applied to the
\* archive's file name without its extension.
C4_ConfigMapNameSanitized ==
  \A i \in Calls("publish") :
    Returned(calls[i]) =>
      calls[i].result.configMapName
        = sanitizeText(ParseName(calls[i].archiveResult.archiveFilename))

\* C5: archiveTest called with a script path that does not exist fails with
\* "Script file not found", having started no subprocess (neither the probe nor
\* the archive command) and written no file.
C5_MissingScript ==
  \A i \in Calls("archive") :
    ~calls[i].scriptExisted =>
      /\ calls[i].pc = "done"
      /\ calls[i].error.text = "Script file not found at path: "
      /\ calls[i].probes = 0
      /\ calls[i].commands = 0
      /\ calls[i].wrote = {}

\* C5's case: a call for a script that is not there has ended
C5_Witness ==
  \E i \in Calls("archive") : ~calls[i].scriptExisted /\ Failed(calls[i])

C7_ResultFileExists ==
  [][\A i \in 1..Len(calls') :
       (/\ calls'[i].op = "archive"
        /\ Returned(calls'[i])
        /\ (i > Len(calls) \/ ~Returned(calls[i]))) =>
         calls'[i].result.archivePath \in DOMAIN fsys']_vars

\* C7's case: archiveTest has returned a result
C7_Witness ==
  \E i \in Calls("archive") : Returned(calls[i]) /\ calls[i].commands = 1

TooLargeText == "Archive file is too large to be stored in a configmap (size: "

C9_MissingArchive ==
  \A i \in Calls("publish") :
    ~calls[i].archiveExisted =>
      /\ calls[i].pc = "done"
      /\ calls[i].error.text = "Archive file not found at path: "
      /\ calls[i].requests = 0

\* C9's case: a call for an archive that is not there has ended
C9_Witness ==
  \E i \in Calls("publish") : ~calls[i].archiveExisted /\ Failed(calls[i])

\* C10: when the create request fails, createConfigMap fails with an error of
\* its own that wraps the client's error message, and returns no result.
C10_PublishFailedWraps ==
  \A i \in Calls("publish") :
    (calls[i].pc = "done" /\ calls[i].response.text # "") =>
      /\ Failed(calls[i])
      /\ calls[i].error.text # calls[i].response.text
      /\ calls[i].error.cause = <<calls[i].response>>

-----------------------------------------------------------------------------
(* deleteConfigMap *)

\* C11: a retract whose delete request the cluster or the transport refuses
\* fails with "Failed to delete ConfigMap <name> from namespace <namespace>: "
\* followed by the refusal's own message, unchanged
C11_RetractFailedWraps ==
  \A i \in Calls("retract") :
    (calls[i].pc = "done" /\ calls[i].response.text # "")
      => /\ Failed(calls[i])
         /\ calls[i].error.text = "Failed to delete ConfigMap "
         /\ calls[i].error.args = <<calls[i].configMapName, calls[i].namespace>>
         /\ calls[i].error.cause = <<calls[i].response>>

C11_Witness ==
  \E i \in Calls("retract") :
    /\ calls[i].pc = "done"
    /\ calls[i].response.text = "NotFound"
    /\ calls[i].error.cause = <<ApiError("NotFound")>>

\* C12: when a retract returns, the resource it named is absent from the
\* namespace it named; so a publish followed by a retract of the published name
\* leaves no such resource
C12_RoundTripAbsent ==
  [][\A i \in Calls("retract") :
       (calls[i].pc = "delete" /\ Returned(calls'[i]))
         => <<calls[i].namespace, calls[i].configMapName>> \notin DOMAIN cluster']_vars

C12_Witness ==
  \E j \in Calls("publish"), i \in Calls("retract") :
    /\ j < i
    /\ Returned(calls[j]) /\ Returned(calls[i])
    /\ calls[i].configMapName = calls[j].result.configMapName
    /\ calls[i].namespace = calls[j].result.namespace
    /\ <<calls[i].namespace, calls[i].configMapName>> \notin DOMAIN cluster

-----------------------------------------------------------------------------
(* archiveTest, further *)

\* C13: two calls of archiveTest for the same script and the same output
\* directory that both return, one after the other or overlapping, return
\* different archivePaths
C13_DistinctArchivePaths ==
  \A i, j \in Calls("archive") :
    (/\ i # j
     /\ Returned(calls[i]) /\ Returned(calls[j])
     /\ calls[i].scriptPath = calls[j].scriptPath
     /\ calls[i].outputDirectory = calls[j].outputDirectory)
      => calls[i].result.archivePath # calls[j].result.archivePath

\* C14: when the archive command exits with a failure, or exits with success
\* and no file is at the archive's path afterwards, archiveTest fails with
\* "Failed to archive the script: " around an error that ends with the
\* command's error stream, and returns nothing
C14_ArchiveCreationFailed ==
  \A i \in Calls("archive") :
    (calls[i].tool.exit > 0 \/ (calls[i].tool.exit = 0 /\ ~calls[i].tool.found))
      => /\ Failed(calls[i])
         /\ calls[i].error.text = "Failed to archive the script: "
         /\ Len(calls[i].error.cause) = 1
         /\ LET inner == calls[i].error.cause[1]
            IN  /\ inner.text = IF calls[i].tool.exit > 0 THEN "Command failed: "
                                ELSE "Failed to create archive: "
                /\ Len(inner.args) > 0
                /\ inner.args[Len(inner.args)] = calls[i].tool.stderr

\* C14's cases: a command that exited with a failure, and one that exited with
\* success and left no file
C14_Witness ==
  /\ \E i \in Calls("archive") : calls[i].tool.exit = 1 /\ Failed(calls[i])
  /\ \E i \in Calls("archive") :
       /\ calls[i].tool.exit = 0 /\ ~calls[i].tool.found /\ Failed(calls[i])
       /\ calls[i].error.cause[1].args = <<"level=error">>

\* C15: when the script and the output directory are there and the version
\* probe fails, archiveTest fails with "k6 is not installed. Please install k6
\* to archive scripts." and the archive command is never started
C15_ToolNotInstalled ==
  \A i \in Calls("archive") :
    calls[i].probe = "failed"
      => /\ Failed(calls[i])
         /\ calls[i].error.text = "k6 is not installed. Please install k6 to archive scripts."
         /\ calls[i].commands = 0
         /\ calls[i].tool = NoTool

C15_Witness ==
  \E i \in Calls("archive") :
    /\ calls[i].scriptExisted
    /\ calls[i].outputDirectory = DirOut /\ calls[i].directoryExisted
    /\ calls[i].probe = "failed"
    /\ Failed(calls[i])

\* C17: a call of archiveTest that returns gives as archivePath the output
\* directory, a slash and archive-<sanitized name of the script without its
\* extension>-<the clock in milliseconds>.tar, or that file name alone (a path
\* in the working directory) when no directory was given, and as
\* archiveFilename the last part of that path
C17_ArchivePathForm ==
  \A i \in Calls("archive") :
    Returned(calls[i]) =>
      \E t \in 1..now :
        LET filename == ArchivePrefix \o sanitizeText(ParseName(calls[i].scriptPath))
                          \o <<"-">> \o NumberToString(t) \o TarExtension
            dir == calls[i].outputDirectory
        IN  /\ calls[i].result.archivePath =
                 IF Truthy(dir) THEN dir \o <<"/">> \o filename ELSE filename
            /\ calls[i].result.archiveFilename = filename
            /\ calls[i].result.archiveFilename = basename(calls[i].result.archivePath)

\* C17's cases: a_B.js archived into directory o at millisecond 1, and a script
\* archived with no directory given
C17_Witness ==
  /\ \E i \in Calls("archive") :
       /\ Returned(calls[i])
       /\ calls[i].scriptPath = ScriptAB /\ calls[i].outputDirectory = DirOut
       /\ calls[i].result.archivePath =
            <<"o", "/", "a", "r", "c", "h", "i", "v", "e", "-", "a", "-", "b", "-", "1",
              ".", "t", "a", "r">>
       /\ calls[i].result.archiveFilename =
            <<"a", "r", "c", "h", "i", "v", "e", "-", "a", "-", "b", "-", "1",
              ".", "t", "a", "r">>
  /\ \E i \in Calls("archive") :
       Returned(calls[i]) /\ calls[i].outputDirectory = Undefined

\* the texts archiveTest, createConfigMap and deleteConfigMap write to the
\* console when they have succeeded
SuccessTexts ==
  {"Archive created successfully at: ", "ConfigMap created in namespace",
   "ConfigMap deleted from namespace"}

\* C18: archiveTest, createConfigMap and deleteConfigMap write no message of
\* success or failure to the console
C18_NoConsoleMessages ==
  \A m \in console : m.text \notin SuccessTexts

-----------------------------------------------------------------------------
(* createConfigMap, further *)

\* C16: every create request of createConfigMap carries a ConfigMap of
\* apiVersion v1, named configMapName in the namespace given, whose binaryData
\* has one entry: archiveFilename, with the base64 text of all that the read of
\* the archive gave
C16_CreateRequestBody ==
  \A i \in Calls("publish") :
    calls[i].requests = 1 =>
      LET body == calls[i].configMap
      IN  /\ body.apiVersion = "v1"
          /\ body.kind = "ConfigMap"
          /\ body.metadata.name = calls[i].configMapName
          /\ body.metadata.namespace = calls[i].namespace
          /\ DOMAIN body.binaryData = {calls[i].archiveResult.archiveFilename}
          /\ body.binaryData[calls[i].archiveResult.archiveFilename]
               = Base64Of(calls[i].read)

\* C16's case: the archive of 1,048,576 bytes "M" at o/a-b.t has gone out as
\* 349,525 times "TU1N" and "TQ=="
C16_Witness ==
  \E i \in Calls("publish") :
    /\ calls[i].requests = 1
    /\ calls[i].archiveResult.archivePath = HandMadePath
    /\ calls[i].read = [size |-> 1048576, byte |-> 77]
    /\ calls[i].configMap.binaryData[<<"a", "-", "b", ".", "t">>]
         = [group |-> <<"T", "U", "1", "N">>, groups |-> 349525,
            tail |-> <<"T", "Q", "=", "=">>]

-----------------------------------------------------------------------------
(* utils/env: the cache *)

\* the variables a file of these lines holds when it is valid
VarsOf(lines) == ValidEntries(DotenvParse(lines))

\* what the last call gave, when it is an accessor, is what that accessor
\* gives on the variables entries
LastGives(trace, entries) ==
  LET last == trace.last
      value == Lookup(entries, last.key)
  IN  /\ last.op = "getEnvVar" =>
           /\ last.out.error.text = ""
           /\ last.out.value = IF value = Undefined THEN last.defaultValue ELSE value
      /\ last.op = "env.get" => last.out.error.text = "" /\ last.out.value = value
      /\ last.op = "requireEnvVar" =>
           IF value = Undefined
             THEN last.out.error.text = "Variable de entorno requerida no encontrada: "
           ELSE last.out.error.text = "" /\ last.out.value = value
      /\ last.op = "hasEnvVar" =>
           /\ last.out.error.text = ""
           /\ last.out.has = (\E i \in 1..Len(entries) : entries[i].key = last.key)
      /\ last.op = "getAllEnvVars" => last.out.error.text = "" /\ last.out.all = entries

\* a step that is a call of an accessor
AccessorStep ==
  /\ envTrace'.steps = envTrace.steps + 1
  /\ envTrace'.last.op \in AccessorOps

\* C19: once the variables are loaded, a call of getEnvVar, hasEnvVar,
\* getAllEnvVars, requireEnvVar or a read through the env proxy, made before any
\* resetEnvCache, does not read the .env file and gives the values of the load
\* that filled the cache, whatever the file holds by then
C19_CacheServesFirstLoad ==
  [][(AccessorStep /\ ~cachedEnv.null)
       => /\ envTrace'.reads = envTrace.reads
          /\ cachedEnv' = cachedEnv
          /\ envTrace.loadedAt = envTrace.resets
          /\ LastGives(envTrace', VarsOf(envTrace.loadedLines))]_vars

\* C19's case: one read, the file rewritten since, and a third call that still
\* gives the value first loaded
C19_Witness ==
  /\ envTrace.reads = 1 /\ envTrace.resets = 0 /\ envTrace.steps = 3
  /\ envTrace.loadedLines = <<LineAx>>
  /\ envFiles[DefaultEnvPath] = FileOf(<<LineAy>>)
  /\ envTrace.last.op = "getEnvVar" /\ envTrace.last.key = <<"A">>
  /\ envTrace.last.out.value = <<"x">>

\* C20: after resetEnvCache the next accessor reads the .env file again (when
\* there is one), and whatever an accessor gives after the reset comes from a
\* load made after the reset, never from the variables cached before it
C20_ResetReloads ==
  [][(AccessorStep /\ envTrace.resets > 0)
       => /\ (envTrace.sinceReset = 0 /\ envFiles[DefaultEnvPath].exists)
               => envTrace'.reads = envTrace.reads + 1
          /\ envTrace'.last.out.error.text
               \in {"", "Variable de entorno requerida no encontrada: "}
               => /\ envTrace'.loadedAt = envTrace'.resets
                  /\ LastGives(envTrace', VarsOf(envTrace'.loadedLines))]_vars

\* C20's case: A=x was cached, the cache was reset, the file now says A=y, and
\* getEnvVar gives y after a second read
C20_Witness ==
  /\ envTrace.resets = 1 /\ envTrace.reads = 2
  /\ envTrace.staleVars = <<[key |-> <<"A">>, val |-> <<"x">>]>>
  /\ envTrace.loadedLines = <<LineAy>>
  /\ envTrace.last.op = "getEnvVar" /\ envTrace.last.key = <<"A">>
  /\ envTrace.last.out.value = <<"y">>

-----------------------------------------------------------------------------
(* utils/env: the validation *)

\* a parsed variable that passes the three checks
VariableIsValid(e) ==
  KeyPatternTest(e.key) /\ e.val # <<>> /\ ValuePatternTest(e.val)

\* C21: loadAndValidateEnv on a file it could read returns the parsed variables
\* when every one of them has a name matching the name pattern and a value that
\* is not empty and matches the value pattern; otherwise it throws one error
\* that lists each refused variable, and returns nothing
C21_ValidationListsAll ==
  (envTrace.last.op = "loadAndValidateEnv" /\ envTrace.lastRead.did) =>
    LET entries == DotenvParse(envTrace.lastRead.lines)
        refused == {i \in 1..Len(entries) : ~VariableIsValid(entries[i])}
        out == envTrace.last.out
    IN  IF refused = {}
          THEN out.error.text = "" /\ out.all = entries
        ELSE /\ out.error.text = "Errores en variables de ambiente:"
             /\ out.all = <<>>
             /\ Len(out.error.args) = Cardinality(refused)
             /\ \A i \in refused :
                  \E k \in 1..Len(out.error.args) :
                    out.error.args[k].args = <<entries[i].key>>

\* C21's case: a file with a lower-case name, a good variable and a value with a
\* tab has been refused with both faults listed, in the file's order
C21_Witness ==
  /\ envTrace.last.op = "loadAndValidateEnv"
  /\ envTrace.lastRead = [did |-> TRUE, lines |-> <<LineLower, LineAx, LineTab>>]
  /\ Len(envTrace.last.out.error.args) = 2
  /\ envTrace.last.out.error.args[1].text = "Nombre invalido: "
  /\ envTrace.last.out.error.args[1].args = <<(<<"a">>)>>
  /\ envTrace.last.out.error.args[2].text
       = "Valor invalido en (contiene caracteres no permitidos)"
  /\ envTrace.last.out.error.args[2].args = <<(<<"B">>)>>

-----------------------------------------------------------------------------
(* loadK6Config *)

\* a field is given by the config file
Given(v) == k6cfg.file.exists /\ v.t # "absent"

-----------------------------------------------------------------------------
(* archiveTest: the order of its checks *)

\* the output directory given to the call was not there
DirectoryMissing(call) == Truthy(call.outputDirectory) /\ ~call.directoryExisted

-----------------------------------------------------------------------------
(* The life of a ConfigMap *)

\* the resource a call of createConfigMap or deleteConfigMap is about
ResourceOf(call) == <<call.namespace, call.configMapName>>

\* C24: a resource comes to be only by a create request that succeeded and
\* ceases to be only by a delete request that succeeded, and what it holds
\* never changes in between; a createConfigMap whose name is already there in
\* the namespace fails and leaves the cluster as it was
C24_OnlyCreateAndDelete ==
  [][/\ \A k \in DOMAIN cluster' \ DOMAIN cluster :
          \E i \in Calls("publish") :
            calls[i].pc = "create" /\ Returned(calls'[i]) /\ k = ResourceOf(calls[i])
     /\ \A k \in DOMAIN cluster \ DOMAIN cluster' :
          \E i \in Calls("retract") :
            calls[i].pc = "delete" /\ Returned(calls'[i]) /\ k = ResourceOf(calls[i])
     /\ \A k \in DOMAIN cluster \cap DOMAIN cluster' : cluster'[k] = cluster[k]
     /\ \A i \in Calls("publish") :
          (/\ calls[i].pc = "create" /\ calls'[i].pc = "done"
           /\ ResourceOf(calls[i]) \in DOMAIN cluster)
            => Failed(calls'[i]) /\ cluster' = cluster]_vars

\* C24's case: an archive published, rewritten and published again under the
\* same name: the second call has failed with the cluster's AlreadyExists and
\* the resource holds what the first call sent
C24_Witness ==
  \E i, j \in Calls("publish") :
    /\ i < j
    /\ Returned(calls[i])
    /\ calls[j].pc = "done" /\ calls[j].response.text = "AlreadyExists"
    /\ calls[j].requests = 1
    /\ ResourceOf(calls[i]) = ResourceOf(calls[j])
    /\ ResourceOf(calls[i]) \in DOMAIN cluster
    /\ cluster[ResourceOf(calls[i])] = calls[i].configMap.binaryData
    /\ calls[j].read # calls[i].read

-----------------------------------------------------------------------------
(* One attempt *)

\* C25: a call of createConfigMap sends one create request at most, a call of
\* deleteConfigMap one delete request at most and a call of archiveTest runs
\* the archive command once at most; the answer to the request, or the
\* command's end, ends the call whether it succeeded or failed, and a call that
\* has ended does nothing more
C25_SingleAttempt ==
  [][\A i \in 1..Len(calls) :
       /\ calls[i].op \in {"publish", "retract"}
            => calls[i].requests <= 1 /\ calls'[i].requests <= 1
       /\ calls[i].op = "archive"
            => calls[i].commands <= 1 /\ calls'[i].commands <= 1
       /\ (calls[i].pc \in {"create", "delete", "cmd"} /\ calls'[i] # calls[i])
            => calls'[i].pc = "done"
       /\ calls[i].pc = "done" => calls'[i] = calls[i]]_vars

\* C25's case: a create request and a delete request have both been refused and
\* each call has ended with its one request
C25_Witness ==
  /\ \E i \in Calls("publish") :
       calls[i].pc = "done" /\ calls[i].response.text # "" /\ calls[i].requests = 1
  /\ \E i \in Calls("retract") :
       calls[i].pc = "done" /\ calls[i].response.text # "" /\ calls[i].requests = 1

-----------------------------------------------------------------------------
(* The local archive *)

\* a step of a createConfigMap or deleteConfigMap call: its entry or one of its
\* continuations
ClusterCallStep ==
  \/ /\ Len(calls') > Len(calls)
     /\ calls'[Len(calls')].op \in {"publish", "retract"}
  \/ \E i \in 1..Len(calls) :
       calls[i].op \in {"publish", "retract"} /\ calls'[i] # calls[i]

\* C26: no step of createConfigMap or deleteConfigMap, of a call that succeeds
\* or of one that fails, deletes, moves or changes a local file, and the result
\* of createConfigMap carries the archivePath and archiveFilename it was given
C26_ArchiveLeftAlone ==
  [][/\ ClusterCallStep => fsys' = fsys
     /\ \A i \in 1..Len(calls') :
          (calls'[i].op = "publish" /\ Returned(calls'[i]))
            => /\ calls'[i].result.archivePath = calls'[i].archiveResult.archivePath
               /\ calls'[i].result.archiveFilename
                    = calls'[i].archiveResult.archiveFilename]_vars

\* C26's case: an archive has been published and retracted again and the file
\* is still there with the content that was read from it
C26_Witness ==
  \E i \in Calls("publish") : \E j \in Calls("retract") :
    /\ Returned(calls[i]) /\ Returned(calls[j])
    /\ calls[j].configMapName = calls[i].result.configMapName
    /\ calls[i].result.archivePath # calls[i].result.archiveFilename
    /\ existsSync(calls[i].result.archivePath)
    /\ fsys[calls[i].result.archivePath] = calls[i].read

-----------------------------------------------------------------------------
(* Calls on different resources *)

\* the (namespace, name) pair a createConfigMap or deleteConfigMap call is about
TargetOf(call) ==
  IF call.op = "publish"
    THEN <<call.namespace, ParseName(call.archiveResult.archiveFilename)>>
  ELSE <<call.namespace, call.configMapName>>

\* no other createConfigMap or deleteConfigMap call, ended or under way, is
\* about the pair of call i
AloneOnTarget(i) ==
  \A j \in (Calls("publish") \cup Calls("retract")) \ {i} :
    TargetOf(calls[j]) # TargetOf(calls[i])

\* C27: whatever the other calls do and however their steps interleave, a call
\* whose (namespace, name) pair no other call is about ends as it would have
\* alone on the fresh cluster, and so does its resource: createConfigMap is
\* never refused for an existing name and its resource exists, with its payload,
\* exactly when it returned; deleteConfigMap finds nothing to delete
C27_DistinctTargetsIndependent ==
  /\ \A i \in Calls("publish") :
       AloneOnTarget(i)
         => /\ calls[i].response.text # "AlreadyExists"
            /\ Returned(calls[i])
                 => /\ TargetOf(calls[i]) \in DOMAIN cluster
                    /\ cluster[TargetOf(calls[i])] = calls[i].configMap.binaryData
            /\ ~Returned(calls[i]) => TargetOf(calls[i]) \notin DOMAIN cluster
  /\ \A i \in Calls("retract") :
       AloneOnTarget(i)
         => /\ ~Returned(calls[i])
            /\ TargetOf(calls[i]) \notin DOMAIN cluster
            /\ calls[i].pc = "done"
                 => calls[i].response.text \in (Transports \ {"ok"}) \cup {"NotFound"}

\* C27's case: a createConfigMap call began after another one, on the same name
\* in another namespace, and returned while the earlier one's request was still
\* unanswered
C27_Witness ==
  \E i, j \in Calls("publish") :
    /\ i < j
    /\ TargetOf(calls[i])[2] = TargetOf(calls[j])[2]
    /\ TargetOf(calls[i])[1] # TargetOf(calls[j])[1]
    /\ calls[i].pc = "create" /\ Returned(calls[j])
    /\ TargetOf(calls[j]) \in DOMAIN cluster
    /\ TargetOf(calls[i]) \notin DOMAIN cluster

-----------------------------------------------------------------------------
(* The payload's size *)

\* the number of bytes a base64 text stands for: three a full group, and the
\* padded tail's one or two
RawSizeOf(text) ==
  3 * text.groups
    + (IF text.tail = <<>> THEN 0
       ELSE 3 - Cardinality({k \in DOMAIN text.tail : text.tail[k] = "="}))

\* the payload of the create request a createConfigMap call has sent
PayloadOf(call) == call.configMap.binaryData[call.archiveResult.archiveFilename]

\* C28: the payload of every create request stands for 1,048,576 bytes at most,
\* whatever happens to the archive file between the size check and the read
C28_PayloadWithinLimit ==
  \A i \in Calls("publish") :
    calls[i].requests >= 1 => RawSizeOf(PayloadOf(calls[i])) <= MaxConfigMapSize

-----------------------------------------------------------------------------
(* deleteConfigMap on what is not there *)

=============================================================================
